---- MODULE Spec2Model ----
(***************************************************************************)
(* Metadata merge engine of semtui (ReconciliationManager and              *)
(* ExtensionManager): a table document is reconciled against the response  *)
(* of a reconciliation service and extended with the response of an        *)
(* extension service.                                                      *)
(*                                                                         *)
(* Encoding of the Python values:                                          *)
(*   - a str that the code splits or concatenates is a sequence of tokens, *)
(*     the separators "$" and ":" being tokens of their own                *)
(*     ("r1$City" is <<"r1", "$", "City">>);                               *)
(*   - a dict is a function over its keys (a record when the keys are      *)
(*     field names); a key the dict lacks is outside its DOMAIN;           *)
(*   - a list is a sequence;                                               *)
(*   - a position that holds None or a value holds None == {} or {value};  *)
(*   - a position whose Python type changes while the code runs is tagged: *)
(*     [str |-> s] for a str, [list |-> l] for a list, a record with the   *)
(*     keys value and uri for the name dict;                               *)
(*   - a call that may raise returns [exc |-> "" or the exception's name,  *)
(*     ...] with the objects it mutated in place as they are at that point.*)
(*                                                                         *)
(* Let(v, LAMBDA x : e) is e with x bound to the value of v: the statement *)
(* "x = v" followed by the rest of the function. It makes TLC evaluate v   *)
(* once, however often e reads x.                                          *)
(***************************************************************************)
EXTENDS Integers, Sequences, FiniteSets, TLC

VARIABLES
    table,      \* the caller's table document, mutated in place by the passes
    response,   \* the response object the caller holds, mutated in place
    last,       \* the last call: its name, its arguments and what it returned
    calls       \* the number of calls made so far

vars == <<table, response, last, calls>>

----------------------------------------------------------------------------
(* Python values *)

Let(v, F(_)) == CHOOSE y \in {F(x) : x \in {v}} : TRUE

None == {}
Some(v) == {v}
The(o) == CHOOSE v \in o : TRUE

PyStr(s) == [str |-> s]
PyList(l) == [list |-> l]
IsStr(v) == "str" \in DOMAIN v

EmptyDict == [k \in {} |-> 0]
HasKey(d, k) == k \in DOMAIN d
SetKey(d, k, v) == [x \in (DOMAIN d) \cup {k} |-> IF x = k THEN v ELSE d[x]]

Return(v) == [exc |-> "", val |-> v]
Raise(e) == [exc |-> e]

\* str.split(sep): the pieces between the occurrences of sep
RECURSIVE Split(_, _)
Split(s, sep) ==
    IF \A i \in 1..Len(s) : s[i] # sep
    THEN <<s>>
    ELSE LET i == CHOOSE j \in 1..Len(s) :
                      s[j] = sep /\ \A k \in 1..(j - 1) : s[k] # sep
         IN <<SubSeq(s, 1, i - 1)>> \o Split(SubSeq(s, i + 1, Len(s)), sep)

\* min() and max() of a non-empty list of numbers
MinOf(l) == CHOOSE x \in {l[i] : i \in 1..Len(l)} : \A j \in 1..Len(l) : x <= l[j]
MaxOf(l) == CHOOSE x \in {l[i] : i \in 1..Len(l)} : \A j \in 1..Len(l) : x >= l[j]

----------------------------------------------------------------------------
(* The table document *)

NumRows == 2

RowName == <<"r1", "r2", "r3", "r4">>
Labels == << <<"Rome">>, <<"Turin">>, <<"Milan">>, <<"Bari">> >>
RowIds == [i \in 1..NumRows |-> <<RowName[i]>>]
RowSet == {RowIds[i] : i \in 1..NumRows}

City == <<"City">>
Date == <<"Date">>
Temp == <<"Temp">>
Wind == <<"Wind">>

CellId(row, column_name) == row \o <<"$">> \o column_name

\* A cell and a column as the loader leaves them: no annotation yet
RawCell(row, column_name, label) ==
    [id |-> CellId(row, column_name), label |-> label, metadata |-> <<>>]

RawColumn(column_name) ==
    [id |-> column_name, label |-> column_name, status |-> "empty",
     context |-> EmptyDict, metadata |-> <<>>]

RawTable ==
    [table |-> [id |-> "t1", idDataset |-> "d1", name |-> "cities"],
     columns |-> [c \in {City, Date} |-> RawColumn(c)],
     rows |-> [r \in RowSet |->
                [cells |-> [c \in {City, Date} |->
                    RawCell(r, c, IF c = City
                                  THEN Labels[CHOOSE i \in 1..NumRows : RowIds[i] = r]
                                  ELSE <<"2024-01-01">>)]]]]

----------------------------------------------------------------------------
(* Service registry lookup *)

\* The reconciliator list the backend serves (GET reconciliators/list)
ServiceList ==
    << [id |-> "geocodingHere", uri |-> <<"geo.uri/">>, prefix |-> "georss",
        name |-> "Geocoding", relativeUrl |-> "/geocodingHere"],
       [id |-> "wikidata", uri |-> <<"wd.uri/">>, prefix |-> "wd",
        name |-> "Wikidata", relativeUrl |-> "/wikidata"] >>

RECURSIVE get_reconciliator(_, _)
get_reconciliator(id_reconciliator, resp) ==
    IF resp = <<>> THEN None
    ELSE IF Head(resp).id = id_reconciliator
         THEN Some([uri |-> Head(resp).uri, prefix |-> Head(resp).prefix,
                    name |-> Head(resp).name, relativeUrl |-> Head(resp).relativeUrl])
         ELSE get_reconciliator(id_reconciliator, Tail(resp))

----------------------------------------------------------------------------
(* Score/match evaluation of one cell's candidates *)

parse_name_field(name, uri_reconciliator, id_entity) ==
    [value |-> name, uri |-> uri_reconciliator \o id_entity]

\* Fault injection: entries without a score are skipped instead of making the
\* whole list malformed
score_bound_of_scored_entries(metadata) ==
    LET scored == SelectSeq(metadata, LAMBDA c : HasKey(c, "score"))
        score_list == [i \in 1..Len(scored) |-> scored[i].score]
    IN IF scored = <<>> THEN [lowestScore |-> 0, highestScore |-> 0]
       ELSE [lowestScore |-> MinOf(score_list), highestScore |-> MaxOf(score_list)]

calculate_score_bound_cell(metadata) ==
    IF metadata = <<>> \/ \E i \in 1..Len(metadata) : ~HasKey(metadata[i], "score")
    THEN [lowestScore |-> 0, highestScore |-> 0]
    ELSE LET score_list == [i \in 1..Len(metadata) |-> metadata[i].score]
         IN [lowestScore |-> MinOf(score_list), highestScore |-> MaxOf(score_list)]

RECURSIVE value_match_cell(_)
value_match_cell(metadata) ==
    IF metadata = <<>> THEN Return(FALSE)
    ELSE IF ~HasKey(Head(metadata), "match") THEN Raise("KeyError")
    ELSE IF Head(metadata).match = TRUE THEN Return(TRUE)
    ELSE value_match_cell(Tail(metadata))

create_annotation_meta_cell(metadata) ==
    LET score_bound == calculate_score_bound_cell(metadata)
        value_match == value_match_cell(metadata)
    IN IF value_match.exc # "" THEN value_match
       ELSE Return([annotated |-> TRUE,
                    match |-> [value |-> value_match.val],
                    lowestScore |-> score_bound.lowestScore,
                    highestScore |-> score_bound.highestScore])

----------------------------------------------------------------------------
(* Cell metadata merge of a reconciliation response *)

\* The inner loop of create_cell_metadata_name_field over one item's
\* candidates; cands is the list as the loop left it.
RECURSIVE name_field_items(_, _)
name_field_items(cands, reconciliator) ==
    IF cands = <<>> THEN [exc |-> "", cands |-> <<>>]
    ELSE LET c == Head(cands)
         IN IF ~HasKey(c, "name") \/ ~HasKey(c, "id")
            THEN [exc |-> "KeyError", cands |-> cands]
            ELSE IF reconciliator = None
            THEN [exc |-> "TypeError", cands |-> cands]
            ELSE IF Len(Split(c.id, ":")) < 2
            THEN [exc |-> "IndexError", cands |-> cands]
            ELSE LET c2 == [c EXCEPT !.name =
                                parse_name_field(c.name, The(reconciliator).uri,
                                                 Split(c.id, ":")[2])]
                 IN Let(name_field_items(Tail(cands), reconciliator),
                        LAMBDA rest :
                        [exc |-> rest.exc, cands |-> <<c2>> \o rest.cands])

\* The outer loop of create_cell_metadata_name_field over the response items;
\* obj is the response object as the loop left it.
RECURSIVE name_field_rows(_, _)
name_field_rows(metadata, reconciliator) ==
    IF metadata = <<>> THEN [exc |-> "", obj |-> <<>>]
    ELSE LET item == Head(metadata)
         IN IF ~HasKey(item, "metadata")
            THEN [exc |-> "KeyError", obj |-> metadata]
            ELSE Let(name_field_items(item.metadata, reconciliator),
                 LAMBDA inner :
                 LET item2 == [item EXCEPT !.metadata = inner.cands]
                 IN IF inner.exc # ""
                    THEN [exc |-> inner.exc, obj |-> <<item2>> \o Tail(metadata)]
                    ELSE Let(name_field_rows(Tail(metadata), reconciliator),
                         LAMBDA rest :
                         [exc |-> rest.exc, obj |-> <<item2>> \o rest.obj]))

\* ret is the returned list; obj is the argument object after the call; same
\* tells whether ret is that very object (True) or a fresh empty list.
create_cell_metadata_name_field(metadata, id_reconciliator, reconciliator_response) ==
    Let(get_reconciliator(id_reconciliator, reconciliator_response),
    LAMBDA reconciliator :
    Let(name_field_rows(metadata, reconciliator),
    LAMBDA r :
    [ret |-> IF r.exc # "" THEN <<>> ELSE r.obj,
     obj |-> r.obj,
     same |-> (r.exc = "")]))

\* table and metadata are the two argument objects after the call (or at the
\* point where the exception escaped).
RECURSIVE update_metadata_cells(_, _)
update_metadata_cells(tbl, metadata) ==
    IF metadata = <<>> THEN [exc |-> "", table |-> tbl, metadata |-> <<>>]
    ELSE LET item == Head(metadata)
         IN IF ~HasKey(item, "id")
            THEN [exc |-> "KeyError", table |-> tbl, metadata |-> metadata]
            ELSE IF ~IsStr(item.id)
            THEN [exc |-> "AttributeError", table |-> tbl, metadata |-> metadata]
            ELSE Let(Split(item.id.str, "$"),
                 LAMBDA id :
                 LET item2 == [item EXCEPT !.id = PyList(id)]
                     writable == /\ HasKey(item, "metadata")
                                 /\ id[1] \in DOMAIN tbl.rows
                                 /\ Len(id) >= 2
                                 /\ id[2] \in DOMAIN tbl.rows[id[1]].cells
                     cell1 == SetKey(tbl.rows[id[1]].cells[id[2]], "metadata",
                                     item.metadata)
                     cell2 == Let(create_annotation_meta_cell(item.metadata),
                                  LAMBDA am :
                                  IF am.exc = ""
                                  THEN SetKey(cell1, "annotationMeta", am.val)
                                  ELSE cell1)
                 IN Let(IF writable
                        THEN [tbl EXCEPT !.rows[id[1]].cells[id[2]] = cell2]
                        ELSE tbl,
                    LAMBDA tbl2 :
                    Let(update_metadata_cells(tbl2, Tail(metadata)),
                    LAMBDA rest :
                    [exc |-> rest.exc, table |-> rest.table,
                     metadata |-> <<item2>> \o rest.metadata])))

----------------------------------------------------------------------------
(* Column aggregation *)

\* list(table["rows"].keys()): no pass adds or removes a row, so the keys are
\* those of the loaded table, in its order
RowOrder(tbl) == SelectSeq(RowIds, LAMBDA r : r \in DOMAIN tbl.rows)

\* The number of cells of the column that carry an annotationMeta
count_cells_with_annotation_meta(tbl, column_name) ==
    Cardinality({row \in DOMAIN tbl.rows :
        /\ column_name \in DOMAIN tbl.rows[row].cells
        /\ HasKey(tbl.rows[row].cells[column_name], "annotationMeta")})

calculate_n_cells_reconciliated_column(tbl, column_name) ==
    Cardinality({row \in DOMAIN tbl.rows :
        /\ column_name \in DOMAIN tbl.rows[row].cells
        /\ HasKey(tbl.rows[row].cells[column_name], "annotationMeta")
        /\ HasKey(tbl.rows[row].cells[column_name].annotationMeta, "annotated")
        /\ tbl.rows[row].cells[column_name].annotationMeta.annotated = TRUE})

create_context_column(tbl, column_name, id_reconciliator, reconciliator_response) ==
    LET n_cells == Cardinality(DOMAIN tbl.rows)
    IN Let(get_reconciliator(id_reconciliator, reconciliator_response),
       LAMBDA reconciliator :
       IF reconciliator = None THEN Raise("TypeError")
       ELSE Return(The(reconciliator).prefix :>
                [uri |-> The(reconciliator).uri,
                 total |-> n_cells,
                 reconciliated |->
                     calculate_n_cells_reconciliated_column(tbl, column_name)]))

ColumnIndex == PyList(<< <<"column">>, <<"index">> >>)

\* The types one item appends before its loop ends or an exception stops it
RECURSIVE item_types(_)
item_types(cands) ==
    IF cands = <<>> THEN <<>>
    ELSE IF ~HasKey(Head(cands), "match") THEN <<>>
    ELSE IF Head(cands).match = TRUE
         THEN IF ~HasKey(Head(cands), "type") \/ Head(cands).type = <<>>
              THEN <<>>
              ELSE <<Head(cands).type[1]>> \o item_types(Tail(cands))
         ELSE item_types(Tail(cands))

\* The first two loops of get_column_metadata: the entity list and the types
RECURSIVE column_entity_types(_, _, _)
column_entity_types(metadata, entity, types) ==
    IF metadata = <<>> THEN [entity |-> entity, types |-> types]
    ELSE LET item == Head(metadata)
             isIndex == HasKey(item, "id") /\ item.id = ColumnIndex
             entity2 == IF isIndex /\ HasKey(item, "metadata")
                        THEN item.metadata ELSE entity
             types2 == IF HasKey(item, "id") /\ ~isIndex /\ HasKey(item, "metadata")
                       THEN types \o item_types(item.metadata) ELSE types
         IN Let(<<entity2, types2>>,
                LAMBDA acc : column_entity_types(Tail(metadata), acc[1], acc[2]))

RECURSIVE entity_match(_)
entity_match(entity) ==
    IF entity = <<>> THEN Return(TRUE)
    ELSE IF ~HasKey(Head(entity), "match") THEN Raise("KeyError")
    ELSE Let(entity_match(Tail(entity)),
             LAMBDA rest :
             IF rest.exc # "" THEN rest
             ELSE Return(Head(entity).match # FALSE /\ rest.val))

get_column_metadata(metadata) ==
    Let(column_entity_types(metadata, <<>>, <<>>),
    LAMBDA et :
    Let(entity_match(et.entity),
    LAMBDA m :
    IF m.exc # "" THEN m
    ELSE Return([entity |-> et.entity, type |-> et.types,
                 matchMetadataValue |-> m.val])))

create_metadata_field_column(metadata) ==
    Let(get_column_metadata(metadata),
    LAMBDA cm :
    IF cm.exc # "" THEN cm
    ELSE Return(<< [id |-> <<>>,
                    match |-> cm.val.matchMetadataValue,
                    score |-> 0,
                    name |-> [value |-> <<>>, uri |-> <<>>],
                    entity |-> cm.val.entity,
                    property |-> <<>>,
                    type |-> cm.val.type] >>))

\* Fault injection: a cell's match flag never clears the column's
score_bound_row_without_match(tbl, row, column_name, acc) ==
    IF column_name \notin DOMAIN tbl.rows[row].cells
    THEN [exc |-> "KeyError", acc |-> acc]
    ELSE LET cell == tbl.rows[row].cells[column_name]
             annotation_meta == cell.annotationMeta
         IN IF ~HasKey(cell, "annotationMeta") \/ ~HasKey(annotation_meta, "annotated")
            THEN [exc |-> "", acc |-> acc]
            ELSE IF annotation_meta.annotated = TRUE
                    /\ HasKey(annotation_meta, "lowestScore")
                    /\ HasKey(annotation_meta, "highestScore")
            THEN [exc |-> "",
                  acc |-> [acc EXCEPT !.all_scores =
                              @ \o <<annotation_meta.lowestScore,
                                     annotation_meta.highestScore>>]]
            ELSE [exc |-> "", acc |-> acc]

\* Fault injection: the scores of a cell are pooled whether or not the cell is
\* annotated
score_bound_row_of_any_cell(tbl, row, column_name, acc) ==
    IF column_name \notin DOMAIN tbl.rows[row].cells
    THEN [exc |-> "KeyError", acc |-> acc]
    ELSE LET cell == tbl.rows[row].cells[column_name]
             annotation_meta == cell.annotationMeta
         IN IF ~HasKey(cell, "annotationMeta") \/ ~HasKey(annotation_meta, "annotated")
               \/ ~HasKey(annotation_meta, "lowestScore")
               \/ ~HasKey(annotation_meta, "highestScore")
               \/ ~HasKey(annotation_meta, "match")
               \/ ~HasKey(annotation_meta.match, "value")
            THEN [exc |-> "", acc |-> acc]
            ELSE [exc |-> "",
                  acc |-> [all_scores |-> acc.all_scores
                                          \o <<annotation_meta.lowestScore,
                                                annotation_meta.highestScore>>,
                           match_value |-> IF annotation_meta.match.value = FALSE
                                           THEN FALSE ELSE acc.match_value]]

\* One iteration of the loop of calculate_score_bound_column over the rows;
\* acc is [all_scores, match_value].
score_bound_row(tbl, row, column_name, acc) ==
    IF column_name \notin DOMAIN tbl.rows[row].cells
    THEN [exc |-> "KeyError", acc |-> acc]
    ELSE LET cell == tbl.rows[row].cells[column_name]
             annotation_meta == cell.annotationMeta
             annotated == annotation_meta.annotated = TRUE
             s1 == IF annotated /\ HasKey(annotation_meta, "lowestScore")
                   THEN acc.all_scores \o <<annotation_meta.lowestScore>>
                   ELSE acc.all_scores
             s2 == IF annotated /\ HasKey(annotation_meta, "lowestScore")
                             /\ HasKey(annotation_meta, "highestScore")
                   THEN s1 \o <<annotation_meta.highestScore>>
                   ELSE s1
             complete == annotated =>
                             /\ HasKey(annotation_meta, "lowestScore")
                             /\ HasKey(annotation_meta, "highestScore")
         IN IF ~HasKey(cell, "annotationMeta") \/ ~HasKey(annotation_meta, "annotated")
            THEN [exc |-> "", acc |-> acc]
            ELSE IF ~complete \/ ~HasKey(annotation_meta, "match")
                              \/ ~HasKey(annotation_meta.match, "value")
            THEN [exc |-> "", acc |-> [acc EXCEPT !.all_scores = s2]]
            ELSE [exc |-> "",
                  acc |-> [all_scores |-> s2,
                           match_value |-> IF annotation_meta.match.value = FALSE
                                           THEN FALSE ELSE acc.match_value]]

RECURSIVE score_bound_rows(_, _, _, _)
score_bound_rows(tbl, rows, column_name, acc) ==
    IF rows = <<>> THEN [exc |-> "", acc |-> acc]
    ELSE Let(score_bound_row(tbl, Head(rows), column_name, acc),
             LAMBDA r :
             IF r.exc # "" THEN r
             ELSE score_bound_rows(tbl, Tail(rows), column_name, r.acc))

\* Fault injection: a column without scores gets the defaults of a cell
score_bound_column_with_defaults(tbl, column_name, reconciliator_response) ==
    Let(score_bound_rows(tbl, RowOrder(tbl), column_name,
                         [all_scores |-> <<>>, match_value |-> TRUE]),
    LAMBDA r :
    IF r.exc # "" THEN Raise(r.exc)
    ELSE IF r.acc.all_scores # <<>>
    THEN Return([lowestScore |-> Some(MinOf(r.acc.all_scores)),
                 highestScore |-> Some(MaxOf(r.acc.all_scores)),
                 matchValue |-> Some(r.acc.match_value)])
    ELSE Return([lowestScore |-> Some(0), highestScore |-> Some(0),
                 matchValue |-> Some(FALSE)]))

calculate_score_bound_column(tbl, column_name, reconciliator_response) ==
    Let(score_bound_rows(tbl, RowOrder(tbl), column_name,
                         [all_scores |-> <<>>, match_value |-> TRUE]),
    LAMBDA r :
    IF r.exc # "" THEN Raise(r.exc)
    ELSE IF r.acc.all_scores # <<>>
    THEN Return([lowestScore |-> Some(MinOf(r.acc.all_scores)),
                 highestScore |-> Some(MaxOf(r.acc.all_scores)),
                 matchValue |-> Some(r.acc.match_value)])
    ELSE Return([lowestScore |-> None, highestScore |-> None,
                 matchValue |-> None]))

create_annotation_meta_column(annotated, tbl, column_name, reconciliator_response) ==
    Let(calculate_score_bound_column(tbl, column_name, reconciliator_response),
    LAMBDA score_bound :
    IF score_bound.exc # "" THEN score_bound
    ELSE Return([annotated |-> annotated,
                 match |-> [value |-> score_bound.val.matchValue],
                 lowestScore |-> score_bound.val.lowestScore,
                 highestScore |-> score_bound.val.highestScore]))

\* table is the argument object after the call, or at the point where the
\* exception escaped.
update_metadata_column(tbl, column_name, id_reconciliator, metadata, reconciliator_response) ==
    IF column_name \notin DOMAIN tbl.columns
    THEN [exc |-> "KeyError", table |-> tbl]
    ELSE Let([tbl EXCEPT !.columns[column_name] =
                 SetKey(SetKey(@, "status", "pending"), "kind", "entity")],
         LAMBDA t1 :
         Let(create_context_column(t1, column_name, id_reconciliator,
                                   reconciliator_response),
         LAMBDA context :
         IF context.exc # "" THEN [exc |-> context.exc, table |-> t1]
         ELSE
         Let([t1 EXCEPT !.columns[column_name] = SetKey(@, "context", context.val)],
         LAMBDA t2 :
         Let(create_metadata_field_column(metadata),
         LAMBDA meta :
         IF meta.exc # "" THEN [exc |-> meta.exc, table |-> t2]
         ELSE
         Let([t2 EXCEPT !.columns[column_name] = SetKey(@, "metadata", meta.val)],
         LAMBDA t3 :
         Let(create_annotation_meta_column(TRUE, t3, column_name,
                                           reconciliator_response),
         LAMBDA am :
         IF am.exc # "" THEN [exc |-> am.exc, table |-> t3]
         ELSE [exc |-> "",
               table |-> [t3 EXCEPT !.columns[column_name] =
                             SetKey(@, "annotationMeta", am.val)]]))))))

----------------------------------------------------------------------------
(* The reconcile pass *)

\* A payload of the row items alone
payload_of_row_items(tbl, column_name, id_reconciliator) ==
    IF \E r \in DOMAIN tbl.rows :
           \/ column_name \notin DOMAIN tbl.rows[r].cells
           \/ ~HasKey(tbl.rows[r].cells[column_name], "label")
    THEN Raise("KeyError")
    ELSE Return([serviceId |-> id_reconciliator,
                 items |-> [i \in 1..Len(RowOrder(tbl)) |->
                              [id |-> CellId(RowOrder(tbl)[i], column_name),
                               label |-> tbl.rows[RowOrder(tbl)[i]]
                                            .cells[column_name].label]]])

create_reconciliation_payload(tbl, column_name, id_reconciliator) ==
    IF \E r \in DOMAIN tbl.rows :
           \/ column_name \notin DOMAIN tbl.rows[r].cells
           \/ ~HasKey(tbl.rows[r].cells[column_name], "label")
    THEN Raise("KeyError")
    ELSE Return([serviceId |-> id_reconciliator,
                 items |-> << [id |-> <<"column", "$", "index">>,
                               label |-> column_name] >>
                           \o [i \in 1..Len(RowOrder(tbl)) |->
                                 [id |-> CellId(RowOrder(tbl)[i], column_name),
                                  label |-> tbl.rows[RowOrder(tbl)[i]]
                                               .cells[column_name].label]]])

\* The items of the response object obj that a merge wrote to cell
\* (row, column_name): the cell's metadata is the item's very list object.
AliasIndex(obj, row, column_name) ==
    {k \in 1..Len(obj) :
        /\ HasKey(obj[k], "id") /\ HasKey(obj[k], "metadata")
        /\ ~IsStr(obj[k].id)
        /\ Len(obj[k].id.list) >= 2
        /\ obj[k].id.list[1] = row
        /\ obj[k].id.list[2] = column_name}

EntityIndex(obj) ==
    {k \in 1..Len(obj) :
        HasKey(obj[k], "id") /\ HasKey(obj[k], "metadata") /\ obj[k].id = ColumnIndex}

LastOf(S) == CHOOSE k \in S : \A j \in S : j <= k

\* The table after the response object it shares lists with went from obj to
\* new_obj in place: the cells (and the column entity) a former merge pointed
\* at an item's candidate list see that list as it is now.
RefreshAliases(tbl, obj, new_obj, column_name) ==
    LET cellOf(r, c) ==
            LET cell == tbl.rows[r].cells[c]
                K == AliasIndex(obj, r, c)
            IN IF K # {} /\ HasKey(cell, "metadata")
                         /\ cell.metadata = obj[LastOf(K)].metadata
               THEN [cell EXCEPT !.metadata = new_obj[LastOf(K)].metadata]
               ELSE cell
        E == EntityIndex(obj)
        column == tbl.columns[column_name]
        shared == /\ column_name \in DOMAIN tbl.columns
                  /\ E # {}
                  /\ column.metadata # <<>>
                  /\ HasKey(column.metadata[1], "entity")
                  /\ column.metadata[1].entity = obj[LastOf(E)].metadata
    IN [rows |-> [r \in DOMAIN tbl.rows |->
                    [cells |-> [c \in DOMAIN tbl.rows[r].cells |-> cellOf(r, c)]]],
        columns |-> IF shared
                    THEN [tbl.columns EXCEPT ![column_name].metadata[1].entity =
                              new_obj[LastOf(E)].metadata]
                    ELSE tbl.columns,
        table |-> tbl.table]

\* The merge steps of reconcile on the response object response_data: name
\* rewrite, cell update, column update. table and response are the two
\* objects after the steps, or at the point where the exception escaped.
merge_steps(tbl, response_data, column_name, id_reconciliator, reconciliator_response) ==
    Let(create_cell_metadata_name_field(response_data, id_reconciliator,
                                        reconciliator_response),
    LAMBDA named :
    Let(RefreshAliases(tbl, response_data, named.obj, column_name),
    LAMBDA tbl0 :
    Let(update_metadata_cells(tbl0, named.ret),
    LAMBDA cells :
    LET object == IF named.same THEN cells.metadata ELSE named.obj
    IN IF cells.exc # ""
       THEN [exc |-> cells.exc, ret |-> "", table |-> cells.table,
             response |-> object, merged |-> TRUE]
       ELSE Let(update_metadata_column(cells.table, column_name, id_reconciliator,
                                       cells.metadata, reconciliator_response),
            LAMBDA column :
            IF column.exc # ""
            THEN [exc |-> column.exc, ret |-> "", table |-> column.table,
                  response |-> object, merged |-> TRUE]
            ELSE [exc |-> "", ret |-> "table", table |-> column.table,
                  response |-> object, merged |-> TRUE]))))

\* list(table["columns"].keys()): no pass adds or removes a column, so the
\* keys are those of the loaded table, in its order
ColumnOrder(tbl) == SelectSeq(<<City, Date>>, LAMBDA c : c \in DOMAIN tbl.columns)

\* The count both payload builders read from the column's context
payload_n_cells_reconciliated(tbl, column_name) ==
    IF column_name \in DOMAIN tbl.columns
    THEN LET column == tbl.columns[column_name]
         IN IF HasKey(column, "context") /\ "georss" \in DOMAIN column.context
            THEN IF HasKey(column.context["georss"], "reconciliated")
                 THEN column.context["georss"].reconciliated
                 ELSE 0
            ELSE 0
    ELSE 0

\* table.get(key, default) on the "table" section
table_field(tbl, key, default) ==
    IF HasKey(tbl.table, key) THEN Some(tbl.table[key]) ELSE default

\* The payload reconcile returns next to the table
reconcile_backend_payload(tbl, column_name) ==
    [tableInstance |->
        [id |-> table_field(tbl, "id", None),
         idDataset |-> table_field(tbl, "idDataset", None),
         name |-> table_field(tbl, "name", None),
         nCols |-> table_field(tbl, "nCols", Some(0)),
         nRows |-> table_field(tbl, "nRows", Some(0)),
         nCells |-> table_field(tbl, "nCells", Some(0)),
         nCellsReconciliated |-> payload_n_cells_reconciliated(tbl, column_name),
         lastModifiedDate |-> table_field(tbl, "lastModifiedDate", Some("")),
         minMetaScore |-> table_field(tbl, "minMetaScore", Some(0)),
         maxMetaScore |-> table_field(tbl, "maxMetaScore", Some(1))],
     columns |-> [byId |-> tbl.columns, allIds |-> ColumnOrder(tbl)],
     rows |-> [byId |-> tbl.rows, allIds |-> RowOrder(tbl)]]

create_reconciliation_payload_for_backend(table_json, reconciliated_column_name, table_id, dataset_id, table_name) ==
    [tableInstance |->
        [id |-> Some(table_id),
         idDataset |-> Some(dataset_id),
         name |-> Some(table_name),
         nCols |-> table_field(table_json, "nCols", Some(0)),
         nRows |-> table_field(table_json, "nRows", Some(0)),
         nCells |-> table_field(table_json, "nCells", Some(0)),
         nCellsReconciliated |->
             payload_n_cells_reconciliated(table_json, reconciliated_column_name),
         lastModifiedDate |-> table_field(table_json, "lastModifiedDate", Some("")),
         minMetaScore |-> table_field(table_json, "minMetaScore", Some(0)),
         maxMetaScore |-> table_field(table_json, "maxMetaScore", Some(1))],
     columns |-> [byId |-> table_json.columns, allIds |-> ColumnOrder(table_json)],
     rows |-> [byId |-> table_json.rows, allIds |-> RowOrder(table_json)]]

\* list_data and post_data are what the two service calls gave: None for a
\* request that failed, else the decoded body.
\* A pass that takes a failed request for an empty answer and merges it
reconcile_merging_failed_request(tbl, column_name, id_reconciliator, list_data, post_data) ==
    LET stop(e, r) == [exc |-> e, ret |-> r, table |-> tbl, response |-> <<>>,
                       merged |-> FALSE]
    IN IF list_data = None THEN stop("", "None")
       ELSE IF get_reconciliator(id_reconciliator, The(list_data)) = None
       THEN stop("", "None")
       ELSE IF create_reconciliation_payload(tbl, column_name,
                                             id_reconciliator).exc # ""
       THEN stop("KeyError", "")
       ELSE IF post_data = None
       THEN [merge_steps(tbl, <<>>, column_name, id_reconciliator,
                         The(list_data)) EXCEPT !.ret = "None"]
       ELSE merge_steps(tbl, The(post_data), column_name, id_reconciliator,
                        The(list_data))

reconcile(tbl, column_name, id_reconciliator, list_data, post_data) ==
    LET stop(e, r) == [exc |-> e, ret |-> r, table |-> tbl, response |-> <<>>,
                       merged |-> FALSE]
    IN IF list_data = None THEN stop("", "None")
       ELSE IF get_reconciliator(id_reconciliator, The(list_data)) = None
       THEN stop("", "None")
       ELSE IF create_reconciliation_payload(tbl, column_name,
                                             id_reconciliator).exc # ""
       THEN stop("KeyError", "")
       ELSE IF post_data = None THEN stop("", "None")
       ELSE merge_steps(tbl, The(post_data), column_name, id_reconciliator,
                        The(list_data))

----------------------------------------------------------------------------
(* The extend pass *)

\* The extender list the backend serves (GET extenders/list)
ExtenderList ==
    << [id |-> "meteoPropertiesOpenMeteo", name |-> "Meteo",
        relativeUrl |-> "/meteoPropertiesOpenMeteo"] >>

RECURSIVE get_extender(_, _)
get_extender(id_extender, resp) ==
    IF resp = <<>> THEN None
    ELSE IF Head(resp).id = id_extender
         THEN Some([name |-> Head(resp).name, relativeUrl |-> Head(resp).relativeUrl])
         ELSE get_extender(id_extender, Tail(resp))

\* The id of the first candidate of the cell with match == True, if any
\* The id of the first candidate of a list that has a flagged candidate
first_of_flagged_list(metadata) ==
    IF \E j \in 1..Len(metadata) :
           HasKey(metadata[j], "match") /\ metadata[j].match = TRUE
    THEN Some(IF HasKey(metadata[1], "id") THEN Some(metadata[1].id) ELSE None)
    ELSE None

RECURSIVE first_match(_)
first_match(metadata) ==
    IF metadata = <<>> THEN None
    ELSE IF HasKey(Head(metadata), "match") /\ Head(metadata).match = TRUE
         THEN Some(IF HasKey(Head(metadata), "id") THEN Some(Head(metadata).id)
                   ELSE None)
         ELSE first_match(Tail(metadata))

create_extension_payload(data, reconciliated_column_name, properties, id_extender, dates, weather_params, decimal_format) ==
    LET confirmed(row) ==
            LET cells == data.rows[row].cells
                cell == cells[reconciliated_column_name]
            IN /\ reconciliated_column_name \in DOMAIN cells
               /\ HasKey(cell, "annotationMeta")
               /\ HasKey(cell.annotationMeta, "match")
               /\ HasKey(cell.annotationMeta.match, "value")
               /\ cell.annotationMeta.match.value = TRUE
               /\ HasKey(cell, "metadata")
               /\ first_match(cell.metadata) # None
        rows == {row \in DOMAIN data.rows : confirmed(row)}
    IN [serviceId |-> id_extender,
        items |-> [c \in {reconciliated_column_name} |->
                    [row \in rows |->
                        The(first_match(data.rows[row]
                                .cells[reconciliated_column_name].metadata))]],
        property |-> properties,
        dates |-> dates,
        weatherParams |-> weather_params,
        decimalFormat |-> decimal_format]

RECURSIVE get_reconciliator_from_prefix(_, _)
get_reconciliator_from_prefix(prefix_reconciliator, resp) ==
    IF resp = <<>> THEN None
    ELSE IF Head(resp).prefix = prefix_reconciliator
         THEN Some([uri |-> Head(resp).uri, id |-> Head(resp).id,
                    name |-> Head(resp).name, relativeUrl |-> Head(resp).relativeUrl])
         ELSE get_reconciliator_from_prefix(prefix_reconciliator, Tail(resp))

\* reconciliator_response is None when the list request failed
get_column_id_reconciliator(tbl, column_name, reconciliator_response) ==
    IF column_name \notin DOMAIN tbl.columns
       \/ ~HasKey(tbl.columns[column_name], "context")
    THEN Raise("KeyError")
    ELSE IF DOMAIN tbl.columns[column_name].context = {}
    THEN Raise("IndexError")
    ELSE IF reconciliator_response = None
    THEN Raise("TypeError")
    ELSE LET prefix == CHOOSE k \in DOMAIN tbl.columns[column_name].context : TRUE
             found == get_reconciliator_from_prefix(prefix, The(reconciliator_response))
         IN IF found = None THEN Raise("TypeError") ELSE Return(The(found).id)

\* Iterating the dict new_column_data['cells'] yields its keys, which are str:
\* 'metadata' in cell is a substring test on the row key, and cell['metadata']
\* on a str raises.
check_entity(new_column_data) ==
    IF \E i \in 1..Len(new_column_data.cells) :
           \E j \in 1..Len(new_column_data.cells[i].key) :
               new_column_data.cells[i].key[j] = "metadata"
    THEN Raise("TypeError")
    ELSE Return(FALSE)

RECURSIVE parse_name_entities(_, _)
parse_name_entities(entities, uri_reconciliator) ==
    IF entities = <<>> THEN <<>>
    ELSE LET entity == Head(entities)
             entity2 ==
                 IF HasKey(entity, "id") /\ \E i \in 1..Len(entity.id) : entity.id[i] = ":"
                 THEN SetKey(entity, "name",
                          parse_name_field(IF HasKey(entity, "name") THEN entity.name
                                           ELSE PyStr(""),
                                           uri_reconciliator,
                                           Split(entity.id, ":")[2]))
                 ELSE entity
         IN <<entity2>> \o parse_name_entities(Tail(entities), uri_reconciliator)

\* Fault injection: the new cell keeps the id the response supplied for it
new_cell_with_response_id(old, row_key, new_column_name, cell_data) ==
    SetKey(SetKey(old, "id", IF HasKey(cell_data, "id") THEN cell_data.id
                             ELSE CellId(row_key, new_column_name)),
           "label", IF HasKey(cell_data, "label") THEN cell_data.label ELSE <<>>)

\* new_cell after its id and label are set; old is what setdefault returned:
\* the cell the row already has under that name, else a new empty dict
new_cell(old, row_key, new_column_name, cell_data) ==
    SetKey(SetKey(old, "id", CellId(row_key, new_column_name)),
           "label", IF HasKey(cell_data, "label") THEN cell_data.label ELSE <<>>)

\* The loop of add_extended_cell over the response column's cells;
\* reconciliator is what get_reconciliator returns in each iteration.
RECURSIVE extended_cells(_, _, _, _, _)
extended_cells(tbl, cells, new_column_name, column_type, reconciliator) ==
    IF cells = <<>> THEN [exc |-> "", table |-> tbl]
    ELSE LET row_key == Head(cells).key
             cell_data == Head(cells).val
         IN IF row_key \notin DOMAIN tbl.rows
            THEN [exc |-> "KeyError", table |-> tbl]
            ELSE Let(parse_name_entities(IF HasKey(cell_data, "metadata")
                                         THEN cell_data.metadata ELSE <<>>,
                                         IF reconciliator = None THEN <<>>
                                         ELSE The(reconciliator).uri),
                 LAMBDA metadata :
                 LET old == IF new_column_name \in DOMAIN tbl.rows[row_key].cells
                            THEN tbl.rows[row_key].cells[new_column_name]
                            ELSE EmptyDict
                     c2 == new_cell(old, row_key, new_column_name, cell_data)
                     c3 == SetKey(c2, "metadata", metadata)
                     put(c) == [tbl EXCEPT !.rows[row_key].cells =
                                    SetKey(@, new_column_name, c)]
                 IN IF reconciliator = None
                    THEN [exc |-> "TypeError", table |-> put(c2)]
                    ELSE IF column_type # "entity"
                    THEN Let(put(SetKey(c3, "annotationMeta", EmptyDict)),
                             LAMBDA tbl2 :
                             extended_cells(tbl2, Tail(cells), new_column_name,
                                            column_type, reconciliator))
                    ELSE Let(create_annotation_meta_cell(metadata),
                             LAMBDA am :
                             IF am.exc # ""
                             THEN [exc |-> am.exc, table |-> put(c3)]
                             ELSE Let(put(SetKey(c3, "annotationMeta", am.val)),
                                      LAMBDA tbl2 :
                                      extended_cells(tbl2, Tail(cells),
                                                     new_column_name, column_type,
                                                     reconciliator))))

\* A merge that makes room for the column's cells before it looks at them
add_extended_cell_after_setdefault(tbl, new_column_data, new_column_name, id_reconciliator, reconciliator_response) ==
    IF ~HasKey(new_column_data, "cells")
    THEN [exc |-> "ValueError",
          table |-> [tbl EXCEPT !.rows =
                        [r \in DOMAIN tbl.rows |->
                            [tbl.rows[r] EXCEPT !.cells =
                                IF new_column_name \in DOMAIN @ THEN @
                                ELSE SetKey(@, new_column_name, EmptyDict)]]]]
    ELSE Let(check_entity(new_column_data),
         LAMBDA entity :
         IF entity.exc # "" THEN [exc |-> entity.exc, table |-> tbl]
         ELSE Let(get_reconciliator(id_reconciliator, reconciliator_response),
              LAMBDA reconciliator :
              extended_cells(tbl, new_column_data.cells, new_column_name,
                             IF HasKey(new_column_data, "kind")
                             THEN new_column_data.kind
                             ELSE IF entity.val THEN "entity" ELSE "literal",
                             reconciliator)))

add_extended_cell(tbl, new_column_data, new_column_name, id_reconciliator, reconciliator_response) ==
    IF ~HasKey(new_column_data, "cells")
    THEN [exc |-> "ValueError", table |-> tbl]
    ELSE Let(check_entity(new_column_data),
         LAMBDA entity :
         IF entity.exc # "" THEN [exc |-> entity.exc, table |-> tbl]
         ELSE Let(get_reconciliator(id_reconciliator, reconciliator_response),
              LAMBDA reconciliator :
              extended_cells(tbl, new_column_data.cells, new_column_name,
                             IF HasKey(new_column_data, "kind")
                             THEN new_column_data.kind
                             ELSE IF entity.val THEN "entity" ELSE "literal",
                             reconciliator)))

\* The loop of add_extended_columns over the response's column keys, from the
\* i-th on
RECURSIVE extended_columns(_, _, _, _, _)
extended_columns(tbl, extension_data, new_columns_name, reconciliator_response, i) ==
    IF i > Len(extension_data.columns) THEN [exc |-> "", table |-> tbl]
    ELSE IF i > Len(new_columns_name) THEN [exc |-> "IndexError", table |-> tbl]
    ELSE LET column_key == extension_data.columns[i].key
         IN IF column_key \notin DOMAIN extension_data.meta
            THEN [exc |-> "KeyError", table |-> tbl]
            ELSE Let(get_column_id_reconciliator(tbl, extension_data.meta[column_key],
                                                 reconciliator_response),
                 LAMBDA id_reconciliator :
                 IF id_reconciliator.exc # ""
                 THEN [exc |-> id_reconciliator.exc, table |-> tbl]
                 ELSE Let(add_extended_cell(tbl, extension_data.columns[i].val,
                                            new_columns_name[i], id_reconciliator.val,
                                            The(reconciliator_response)),
                      LAMBDA added :
                      IF added.exc # "" THEN added
                      ELSE extended_columns(added.table, extension_data,
                                            new_columns_name, reconciliator_response,
                                            i + 1)))

add_extended_columns(tbl, extension_data, new_columns_name, reconciliator_response) ==
    IF ~HasKey(extension_data, "columns") \/ ~HasKey(extension_data, "meta")
    THEN [exc |-> "ValueError", table |-> tbl]
    ELSE extended_columns(tbl, extension_data, new_columns_name,
                          reconciliator_response, 1)

\* list_data, extender_list and post_data are what the three service calls
\* gave: None for a request that failed, else the decoded body. exc is the
\* exception that escapes, caught the one the handler prints and swallows.
extend_column(tbl, reconciliated_column_name, id_extender, properties, new_columns_name, date_column_name, weather_params, list_data, extender_list, post_data) ==
    LET dates == [row \in {r \in DOMAIN tbl.rows :
                              /\ date_column_name \in DOMAIN tbl.rows[r].cells
                              /\ HasKey(tbl.rows[r].cells[date_column_name], "label")
                              /\ tbl.rows[r].cells[date_column_name].label # <<>>} |->
                     <<tbl.rows[row].cells[date_column_name].label>>]
        payload == create_extension_payload(tbl, reconciliated_column_name,
                       properties, id_extender, dates, weather_params, <<"comma">>)
    IN IF extender_list = None
       THEN [exc |-> "TypeError", caught |-> "", ret |-> "", table |-> tbl]
       ELSE IF get_extender(id_extender, The(extender_list)) = None
       THEN [exc |-> "ValueError", caught |-> "", ret |-> "", table |-> tbl]
       ELSE IF post_data = None
       THEN [exc |-> "", caught |-> "RequestException", ret |-> "None", table |-> tbl]
       ELSE Let(add_extended_columns(tbl, The(post_data), new_columns_name, list_data),
            LAMBDA added :
            IF added.exc # ""
            THEN [exc |-> "", caught |-> added.exc, ret |-> "None",
                  table |-> added.table]
            ELSE [exc |-> "", caught |-> "", ret |-> "table", table |-> added.table])

----------------------------------------------------------------------------
(* What the services may answer, and the calls the caller may make *)

MaxCalls == 2

DelKey(d, k) == [x \in (DOMAIN d) \ {k} |-> d[x]]

Cand(id, name, score, match) ==
    [id |-> id, name |-> PyStr(name), score |-> score, match |-> match,
     type |-> <<"city">>]

Item(id, metadata) == [id |-> PyStr(id), metadata |-> metadata]

Geo39 == Cand(<<"geo", ":", "39">>, "Rome", 9, TRUE)
Geo40 == Cand(<<"geo", ":", "40">>, "Turin", 4, FALSE)
Geo41 == Cand(<<"geo", ":", "41">>, "Torino", 7, TRUE)
GeoDeep == Cand(<<"geo", ":", "39", ":", "x">>, "Roma", 6, TRUE)
GeoBare == Cand(<<"geo40">>, "Turin", 4, FALSE)
WdCity == Cand(<<"wd", ":", "Q515">>, "city", 5, TRUE)

R1 == RowIds[1]
R2 == RowIds[2]

\* Decoded bodies of the reconciliation service (POST reconciliators/<url>)
ReconcileResponses ==
    { <<>>,
      \* one matched and one unmatched cell
      << Item(CellId(R1, City), <<Geo39>>), Item(CellId(R2, City), <<Geo40>>) >>,
      \* every cell matched, two candidates for one of them
      << Item(CellId(R1, City), <<Geo39>>),
         Item(CellId(R2, City), <<Geo40, Geo41>>) >>,
      \* column entity under the synthetic id, and a cell without candidates
      << Item(<<"column", "$", "index">>, <<WdCity>>),
         Item(CellId(R1, City), <<>>) >>,
      \* an id with two colons
      << Item(CellId(R1, City), <<GeoDeep>>) >>,
      \* an id without colon in the second item
      << Item(CellId(R1, City), <<Geo39>>), Item(CellId(R2, City), <<GeoBare>>) >>,
      \* a candidate without score
      << Item(CellId(R1, City), <<Geo41, DelKey(Geo39, "score")>>) >>,
      \* a candidate without match flag
      << Item(CellId(R2, City), <<DelKey(Geo40, "match")>>) >>,
      \* a column entity without match flag
      << Item(CellId(R1, City), <<Geo40>>),
         Item(<<"column", "$", "index">>, <<DelKey(WdCity, "match")>>) >>,
      \* ids of another column, of an unknown row, without separator, and of
      \* the new column
      << Item(CellId(R1, Date), <<Geo39>>), Item(CellId(<<"r9">>, City), <<Geo39>>),
         Item(R1, <<Geo40>>), Item(CellId(R2, Temp), <<Geo41>>) >> }

ReconcileCalls ==
    { [column_name |-> City, id_reconciliator |-> "geocodingHere",
       list_data |-> None, post_data |-> None],
      [column_name |-> City, id_reconciliator |-> "unknown",
       list_data |-> Some(ServiceList), post_data |-> None],
      [column_name |-> City, id_reconciliator |-> "geocodingHere",
       list_data |-> Some(ServiceList), post_data |-> None] }
    \cup
    { [column_name |-> c, id_reconciliator |-> id,
       list_data |-> Some(ServiceList), post_data |-> Some(r)] :
        c \in {City, Temp}, id \in {"geocodingHere", "wikidata"},
        r \in ReconcileResponses }

\* A JSON object whose key order the code depends on (the response's columns,
\* a column's cells) is a sequence of [key, val] pairs
Pair(key, val) == [key |-> key, val |-> val]

\* A response column with one literal cell per row of the table
LiteralColumn ==
    [cells |-> [i \in 1..NumRows |->
                   Pair(RowIds[i], [label |-> <<"20">>, metadata |-> <<>>])]]

\* A response column of kind entity; its cells carry an id of their own
EntityColumn ==
    [kind |-> "entity",
     cells |-> << Pair(R1, [id |-> <<"x">>, label |-> <<"Lazio">>,
                            metadata |-> <<WdCity, GeoBare>>]),
                  Pair(R2, [label |-> <<"Piemonte">>, metadata |-> <<>>]) >>]

\* Decoded bodies of the extension service (POST extenders/<url>)
ExtensionResponses ==
    { [columns |-> << Pair("k1", LiteralColumn) >>, meta |-> ("k1" :> City)],
      [columns |-> << Pair("k1", LiteralColumn), Pair("k2", EntityColumn) >>,
       meta |-> ("k1" :> City) @@ ("k2" :> City)],
      [columns |-> << Pair("k1", EntityColumn) >>, meta |-> ("k1" :> City)],
      \* a column with candidates that does not give its kind
      [columns |-> << Pair("k1", DelKey(EntityColumn, "kind")) >>,
       meta |-> ("k1" :> City)],
      [columns |-> << Pair("k1", LiteralColumn), Pair("k2", [kind |-> "literal"]) >>,
       meta |-> ("k1" :> City) @@ ("k2" :> City)],
      [columns |-> << Pair("k1", [cells |-> << Pair(<<"r9">>, [label |-> <<"1">>]) >>]) >>,
       meta |-> ("k1" :> City)],
      [columns |-> << Pair("k1", LiteralColumn) >>] }

ExtendCalls ==
    { [id_extender |-> "meteoPropertiesOpenMeteo", new_columns_name |-> <<Temp>>,
       list_data |-> Some(ServiceList), extender_list |-> None, post_data |-> None],
      [id_extender |-> "unknown", new_columns_name |-> <<Temp>>,
       list_data |-> Some(ServiceList), extender_list |-> Some(ExtenderList),
       post_data |-> None],
      [id_extender |-> "meteoPropertiesOpenMeteo", new_columns_name |-> <<Temp>>,
       list_data |-> Some(ServiceList), extender_list |-> Some(ExtenderList),
       post_data |-> None],
      [id_extender |-> "meteoPropertiesOpenMeteo", new_columns_name |-> <<Temp>>,
       list_data |-> None, extender_list |-> Some(ExtenderList),
       post_data |-> Some([columns |-> << Pair("k1", LiteralColumn) >>,
                           meta |-> ("k1" :> City)])] }
    \cup
    { [id_extender |-> "meteoPropertiesOpenMeteo", new_columns_name |-> names,
       list_data |-> Some(ServiceList), extender_list |-> Some(ExtenderList),
       post_data |-> Some(d)] :
        names \in {<<>>, <<Temp>>, <<Temp, Wind>>}, d \in ExtensionResponses }

----------------------------------------------------------------------------
(* The caller: loads a table, then calls reconcile and extend_column *)

\* A table as the backend stores it after an earlier session reconciled City
ReconciledTable ==
    reconcile(RawTable, City, "geocodingHere", Some(ServiceList),
              Some(<< Item(CellId(R1, City), <<Geo39>>),
                      Item(CellId(R2, City), <<Geo40, Geo41>>) >>)).table

Init ==
    /\ table \in {RawTable, ReconciledTable}
    /\ response = <<>>
    /\ last = [op |-> "load"]
    /\ calls = 0

Reconcile ==
    /\ calls < MaxCalls
    /\ \E call \in ReconcileCalls :
         \E r \in {reconcile(table, call.column_name, call.id_reconciliator,
                             call.list_data, call.post_data)} :
            /\ table' = r.table
            /\ response' = r.response
            /\ last' = [op |-> "reconcile", call |-> call, exc |-> r.exc,
                        ret |-> r.ret, merged |-> r.merged]
    /\ calls' = calls + 1

\* The caller applies the merge steps of reconcile once more, to the response
\* object and the table the last merge left.
MergeAgain ==
    /\ calls < MaxCalls
    /\ last.op \in {"reconcile", "merge_again"}
    /\ last.merged
    /\ \E r \in {merge_steps(table, response, last.call.column_name,
                              last.call.id_reconciliator,
                              The(last.call.list_data))} :
          /\ table' = r.table
          /\ response' = r.response
          /\ last' = [op |-> "merge_again", call |-> last.call, exc |-> r.exc,
                      ret |-> r.ret, merged |-> r.merged]
    /\ calls' = calls + 1

ExtendColumn ==
    /\ calls < MaxCalls
    /\ \E call \in ExtendCalls :
         \E r \in {extend_column(table, City, call.id_extender, <<"temperature">>,
                                 call.new_columns_name, Date, <<"temp_max">>,
                                 call.list_data, call.extender_list,
                                 call.post_data)} :
            /\ table' = r.table
            /\ last' = [op |-> "extend_column", call |-> call, exc |-> r.exc,
                        caught |-> r.caught, ret |-> r.ret]
    /\ response' = <<>>
    /\ calls' = calls + 1

Next == Reconcile \/ MergeAgain \/ ExtendColumn

Spec == Init /\ [][Next]_vars

----------------------------------------------------------------------------
(* The evaluators on their own: the caller holds a candidate list or a table *)
(* whose cells are annotated, and applies one evaluator to it.               *)

MaxLen == 3
MaxScore == 2

SeqsUpTo(S, n) == UNION {[1..k -> S] : k \in 0..n}

\* The candidate lists of a response item: each entry with a score or without
ScoredCandidates ==
    {Cand(<<"geo", ":", "39">>, "Rome", s, TRUE) : s \in (-1)..MaxScore}
    \cup {DelKey(Geo39, "score")}

CandidateLists == SeqsUpTo(ScoredCandidates, MaxLen)

\* The annotationMeta a cell of a loaded table may carry: the summary
\* create_annotation_meta_cell wrote, or that of a cell not annotated yet
CellSummaries ==
    {[annotated |-> TRUE, match |-> [value |-> m], lowestScore |-> b[1],
      highestScore |-> b[2]] :
         m \in BOOLEAN,
         b \in {x \in (0..MaxScore) \X (0..MaxScore) : x[1] <= x[2]}}
    \cup
    {[annotated |-> FALSE, match |-> [value |-> m], lowestScore |-> 0,
      highestScore |-> 0] : m \in BOOLEAN}

\* None: the cell has no annotationMeta key; {}: what add_extended_cell gives
\* the cell of a literal column
CellAnnotations == {None, Some(EmptyDict)} \cup {Some(a) : a \in CellSummaries}

AnnotatedTables ==
    {[RawTable EXCEPT !.rows =
        [r \in RowSet |->
            [cells |-> [c \in {City, Date} |->
                IF c = City /\ f[r] # None
                THEN SetKey(RawTable.rows[r].cells[c], "annotationMeta", The(f[r]))
                ELSE RawTable.rows[r].cells[c]]]]] :
     f \in [RowSet -> CellAnnotations]}

InitEval ==
    /\ \/ /\ table = RawTable
          /\ response \in {<<Item(CellId(R1, City), cands)>> : cands \in CandidateLists}
       \/ /\ table \in AnnotatedTables
          /\ response = <<>>
    /\ last = [op |-> "load"]
    /\ calls = 0

ScoreBoundCell ==
    /\ last.op = "load"
    /\ response # <<>>
    /\ last' = [op |-> "calculate_score_bound_cell",
                metadata |-> response[1].metadata,
                ret |-> calculate_score_bound_cell(response[1].metadata)]
    /\ calls' = calls + 1
    /\ UNCHANGED <<table, response>>

AggregateColumn ==
    /\ last.op = "load"
    /\ response = <<>>
    /\ \E id \in {"geocodingHere", "wikidata"} :
         \E r \in {update_metadata_column(table, City, id, <<>>, ServiceList)} :
            /\ table' = r.table
            /\ last' = [op |-> "update_metadata_column", exc |-> r.exc,
                        id_reconciliator |-> id]
    /\ calls' = calls + 1
    /\ UNCHANGED response

NextEval == ScoreBoundCell \/ AggregateColumn

SpecEval == InitEval /\ [][NextEval]_vars

----------------------------------------------------------------------------
(* The operations on their own: the caller holds a table an earlier pass    *)
(* left and applies one operation of the managers to it.                     *)

\* The tables a reconcile pass or an extension pass leaves
LoadedTables ==
    {RawTable, ReconciledTable}
    \cup {reconcile(t, City, id, Some(ServiceList), Some(r)).table :
             t \in {RawTable, ReconciledTable},
             id \in {"geocodingHere", "wikidata"},
             r \in ReconcileResponses
                   \cup {<< Item(CellId(R1, City),
                                 <<DelKey(Geo40, "match"), Geo39>>) >>}}
    \cup {extend_column(ReconciledTable, City, call.id_extender, <<"temperature">>,
                        call.new_columns_name, Date, <<"temp_max">>,
                        call.list_data, call.extender_list, call.post_data).table :
             call \in ExtendCalls}

InitCalls ==
    /\ table \in LoadedTables
    /\ response = <<>>
    /\ last = [op |-> "load"]
    /\ calls = 0

ReconciliationPayload ==
    /\ last.op = "load"
    /\ \E c \in {City, Date, Temp}, id \in {"geocodingHere", "wikidata"} :
          last' = [op |-> "create_reconciliation_payload", column_name |-> c,
                   id_reconciliator |-> id,
                   ret |-> create_reconciliation_payload(table, c, id)]
    /\ calls' = calls + 1
    /\ UNCHANGED <<table, response>>

ExtensionPayload ==
    /\ last.op = "load"
    /\ \E c \in {City, Date, Temp} :
          last' = [op |-> "create_extension_payload",
                   reconciliated_column_name |-> c,
                   ret |-> create_extension_payload(table, c, <<"temperature">>,
                               "meteoPropertiesOpenMeteo", EmptyDict,
                               <<"temp_max">>, <<"comma">>)]
    /\ calls' = calls + 1
    /\ UNCHANGED <<table, response>>

\* The service lists the backend may give: the full list, or one that no
\* longer has the first service
ServiceLists == {ServiceList, Tail(ServiceList)}

ContextColumn ==
    /\ last.op = "load"
    /\ \E id \in {"geocodingHere", "wikidata", "unknown"}, list \in ServiceLists :
          last' = [op |-> "create_context_column", column_name |-> City,
                   id_reconciliator |-> id, reconciliator_response |-> list,
                   ret |-> create_context_column(table, City, id, list)]
    /\ calls' = calls + 1
    /\ UNCHANGED <<table, response>>

ColumnIdReconciliator ==
    /\ last.op = "load"
    /\ \E c \in {City, Temp}, list \in ServiceLists :
          last' = [op |-> "get_column_id_reconciliator", column_name |-> c,
                   reconciliator_response |-> list,
                   ret |-> get_column_id_reconciliator(table, c, Some(list))]
    /\ calls' = calls + 1
    /\ UNCHANGED <<table, response>>

\* The payload for the backend update, as reconcile builds it and as
\* create_reconciliation_payload_for_backend does
BackendPayload ==
    /\ last.op = "load"
    /\ \E c \in {City, Date, Temp} :
          last' = [op |-> "create_reconciliation_payload_for_backend",
                   reconciliated_column_name |-> c,
                   ret |-> create_reconciliation_payload_for_backend(
                               table, c, "t2", "d2", "towns"),
                   returned |-> reconcile_backend_payload(table, c)]
    /\ calls' = calls + 1
    /\ UNCHANGED <<table, response>>

NextCalls ==
    \/ ReconciliationPayload
    \/ ExtensionPayload
    \/ ContextColumn
    \/ ColumnIdReconciliator
    \/ BackendPayload

SpecCalls == InitCalls /\ [][NextCalls]_vars

----------------------------------------------------------------------------
(* Column aggregation over a table whose rows are not all well formed: the  *)
(* caller holds a loaded table in which a row may have no cell for the       *)
(* column, or a cell whose annotationMeta lacks a field.                     *)

\* Summaries that lack one of their fields
PartialSummaries ==
    {DelKey([annotated |-> TRUE, match |-> [value |-> m], lowestScore |-> 0,
             highestScore |-> MaxScore], k) :
        m \in BOOLEAN,
        k \in {"annotated", "match", "lowestScore", "highestScore"}}

\* What a row holds for the column: Some(annotation) as in CellAnnotations,
\* or no cell at all
RowCells ==
    {Some(a) : a \in CellAnnotations \cup {Some(p) : p \in PartialSummaries}}
    \cup {None}

LooseTables ==
    {[RawTable EXCEPT !.rows =
        [r \in RowSet |->
            [cells |-> [c \in {Date} \cup (IF f[r] = None THEN {} ELSE {City}) |->
                IF c = City /\ The(f[r]) # None
                THEN SetKey(RawTable.rows[r].cells[c], "annotationMeta",
                            The(The(f[r])))
                ELSE RawTable.rows[r].cells[c]]]]] :
     f \in [RowSet -> RowCells]}

InitRows ==
    /\ table \in LooseTables
    /\ response = <<>>
    /\ last = [op |-> "load"]
    /\ calls = 0

NextRows == AggregateColumn

SpecRows == InitRows /\ [][NextRows]_vars

----------------------------------------------------------------------------
(* Properties of the passes (checked under Spec) *)

CellsOf(tbl) ==
    {rc \in (DOMAIN tbl.rows) \X {City, Date, Temp, Wind} :
        rc[2] \in DOMAIN tbl.rows[rc[1]].cells}

CellAt(tbl, rc) == tbl.rows[rc[1]].cells[rc[2]]

AnyMatch(metadata) ==
    \E i \in 1..Len(metadata) :
        HasKey(metadata[i], "match") /\ metadata[i].match = TRUE

\* C1: after any sequence of reconcile and extend passes, every cell of the
\* table has id = its row id, then "$", then its column name, whatever id the
\* service response supplied for it.
C1_CellIdIsRowAndColumn ==
    \A rc \in CellsOf(table) :
        /\ HasKey(CellAt(table, rc), "id")
        /\ CellAt(table, rc).id = rc[1] \o <<"$">> \o rc[2]

\* An extend pass wrote the cell (r1, Temp) from a response cell that came
\* with the id "x".
C1_ExtendedCellCameWithAnId ==
    /\ last.op = "extend_column"
    /\ last.ret = "table"
    /\ The(last.call.post_data).columns[1].val = EntityColumn
    /\ HasKey(EntityColumn.cells[1].val, "id")
    /\ Temp \in DOMAIN table.rows[R1].cells
    /\ table.rows[R1].cells[Temp].label = <<"Lazio">>

\* C2: applying the merge steps of reconcile a second time with the same
\* response object succeeds and leaves the table as the first application
\* left it.
C2_SecondMergeChangesNothing ==
    [][(/\ last.op = "reconcile"
        /\ last.ret = "table"
        /\ last'.op = "merge_again")
       => (last'.exc = "" /\ last'.ret = "table" /\ table' = table)]_vars

MoreKeysThanNames(call) ==
    /\ call.extender_list # None
    /\ get_extender(call.id_extender, The(call.extender_list)) # None
    /\ call.post_data # None
    /\ HasKey(The(call.post_data), "columns")
    /\ HasKey(The(call.post_data), "meta")
    /\ Len(The(call.post_data).columns) > Len(call.new_columns_name)

\* C3: an extend pass whose response has more column keys than the caller
\* gave names leaves the table exactly as it was before the call.
C3_ArityErrorLeavesTable ==
    [][(last'.op = "extend_column" /\ MoreKeysThanNames(last'.call))
       => table' = table]_vars

\* C4: a reconcile pass that does not return a table (it returns None or an
\* exception escapes) leaves the caller's table as it was before the pass.
C4_FailedReconcileLeavesTable ==
    [][(last'.op = "reconcile" /\ last'.ret # "table") => table' = table]_vars

\* C9: every cell a merge has given an annotationMeta has annotated = true,
\* and match.value = true iff one of its candidates has match = true.
C9_EveryWrittenCellIsAnnotated ==
    \A rc \in CellsOf(table) :
        HasKey(CellAt(table, rc), "annotationMeta") =>
            LET cell == CellAt(table, rc)
            IN /\ HasKey(cell.annotationMeta, "annotated")
               /\ cell.annotationMeta.annotated = TRUE
               /\ cell.annotationMeta.match.value = AnyMatch(cell.metadata)

AfterFirstColon(id) ==
    LET i == CHOOSE j \in 1..Len(id) : id[j] = ":" /\ \A k \in 1..(j - 1) : id[k] # ":"
    IN SubSeq(id, i + 1, Len(id))

\* C10: after a reconcile pass, every candidate it rewrote, its id containing
\* ":", has name.uri = the uri of the service used followed by everything
\* after the first ":" of the id, and name.value = the name it came with.
C10_NameUriKeepsAllAfterFirstColon ==
    (last.op = "reconcile" /\ last.ret = "table") =>
        \A k \in 1..Len(response) :
            \A j \in 1..Len(response[k].metadata) :
                LET c == response[k].metadata[j]
                    orig == The(last.call.post_data)[k].metadata[j]
                    uri == The(get_reconciliator(last.call.id_reconciliator,
                                                 The(last.call.list_data))).uri
                IN ((\E n \in 1..Len(orig.id) : orig.id[n] = ":") /\ ~IsStr(c.name))
                   => c.name = [value |-> orig.name,
                                uri |-> uri \o AfterFirstColon(orig.id)]

----------------------------------------------------------------------------
(* Properties of the evaluators (checked under SpecEval) *)

ColumnCells(tbl, column_name) ==
    {r \in DOMAIN tbl.rows :
        /\ column_name \in DOMAIN tbl.rows[r].cells
        /\ HasKey(tbl.rows[r].cells[column_name], "annotationMeta")
        /\ HasKey(tbl.rows[r].cells[column_name].annotationMeta, "annotated")}

CellMeta(tbl, r, column_name) == tbl.rows[r].cells[column_name].annotationMeta

\* The cells of the column whose annotationMeta.annotated is true
AnnotatedCells(tbl, column_name) ==
    {r \in ColumnCells(tbl, column_name) :
        CellMeta(tbl, r, column_name).annotated = TRUE}

\* The cells of the column whose match flag the aggregation reads: those that
\* carry annotated and match.value, and both scores if annotated is true
ContributingCells(tbl, column_name) ==
    {r \in ColumnCells(tbl, column_name) :
        LET am == CellMeta(tbl, r, column_name)
        IN /\ HasKey(am, "match") /\ HasKey(am.match, "value")
           /\ am.annotated = TRUE =>
                 HasKey(am, "lowestScore") /\ HasKey(am, "highestScore")}

NoCellUnmatched(tbl, column_name) ==
    \A r \in ContributingCells(tbl, column_name) :
        CellMeta(tbl, r, column_name).match.value # FALSE

\* C5 as stated: after a column update, the column's match.value is true iff
\* no contributing cell has match.value = false; true when no cell contributes.
C5_ColumnMatchIffNoCellUnmatched ==
    last.op = "update_metadata_column" =>
        table.columns[City].annotationMeta.match.value
            = Some(NoCellUnmatched(table, City))

\* C5, amended: after a column update, if at least one cell of the column is
\* annotated, the column's match.value is true iff no contributing cell has
\* match.value = false; if no cell is annotated it is null.
C5_ColumnMatchOfAnnotatedColumn ==
    last.op = "update_metadata_column" =>
        table.columns[City].annotationMeta.match.value
            = IF AnnotatedCells(table, City) # {}
              THEN Some(NoCellUnmatched(table, City))
              ELSE None

\* The column was updated with one cell annotated and matched and the other
\* not annotated and unmatched: the column's match.value is false.
C5_UnannotatedCellClearsMatch ==
    /\ last.op = "update_metadata_column"
    /\ AnnotatedCells(table, City) = {R1}
    /\ CellMeta(table, R1, City).match.value = TRUE
    /\ R2 \in ContributingCells(table, City)
    /\ CellMeta(table, R2, City).match.value = FALSE
    /\ table.columns[City].annotationMeta.match.value = Some(FALSE)

\* C6: a column update over a column in which no cell is annotated gives the
\* column annotationMeta = {annotated: true, match: {value: null},
\* lowestScore: null, highestScore: null}; with a cell annotated, none of the
\* three is null.
C6_NoAnnotatedCellGivesNull ==
    last.op = "update_metadata_column" =>
        LET am == table.columns[City].annotationMeta
        IN IF AnnotatedCells(table, City) = {}
           THEN am = [annotated |-> TRUE, match |-> [value |-> None],
                      lowestScore |-> None, highestScore |-> None]
           ELSE /\ am.annotated = TRUE
                /\ am.match.value # None
                /\ am.lowestScore # None
                /\ am.highestScore # None

\* The column was updated with no cell annotated, one of its cells being
\* marked not annotated and unmatched.
C6_UnmatchedCellsNotAnnotated ==
    /\ last.op = "update_metadata_column"
    /\ AnnotatedCells(table, City) = {}
    /\ \E r \in ContributingCells(table, City) :
          CellMeta(table, r, City).match.value = FALSE
    /\ table.columns[City].annotationMeta.match.value = None

\* C7: after a column update with at least one cell annotated, the column's
\* lowestScore is the least lowestScore and its highestScore the greatest
\* highestScore of the cells whose annotated is true, so lowestScore <=
\* highestScore, and the other cells contribute no score.
C7_ColumnScoresOfAnnotatedCells ==
    (last.op = "update_metadata_column" /\ AnnotatedCells(table, City) # {}) =>
        LET am == table.columns[City].annotationMeta
            lows == {CellMeta(table, r, City).lowestScore :
                        r \in AnnotatedCells(table, City)}
            highs == {CellMeta(table, r, City).highestScore :
                        r \in AnnotatedCells(table, City)}
        IN /\ am.lowestScore # None /\ am.highestScore # None
           /\ The(am.lowestScore) \in lows
           /\ \A x \in lows : The(am.lowestScore) <= x
           /\ The(am.highestScore) \in highs
           /\ \A x \in highs : The(am.highestScore) >= x
           /\ The(am.lowestScore) <= The(am.highestScore)

\* The column was updated with one cell annotated, its scores 1 and 2, and the
\* other carrying the scores 0 and 0 without being annotated.
C7_OnlyAnnotatedCellScores ==
    /\ last.op = "update_metadata_column"
    /\ AnnotatedCells(table, City) = {R1}
    /\ CellMeta(table, R1, City).lowestScore = 1
    /\ CellMeta(table, R1, City).highestScore = 2
    /\ R2 \in ContributingCells(table, City)
    /\ CellMeta(table, R2, City).lowestScore = 0
    /\ table.columns[City].annotationMeta.lowestScore = Some(1)
    /\ table.columns[City].annotationMeta.highestScore = Some(2)

\* C8: calculate_score_bound_cell returns, never raises: the least and the
\* greatest score of a non-empty list whose entries all carry a score,
\* {lowestScore: 0, highestScore: 0} for an empty list and for a list with an
\* entry without score.
C8_ScoreBoundsOfAnyList ==
    last.op = "calculate_score_bound_cell" =>
        LET m == last.metadata
            scores == {m[i].score : i \in {j \in 1..Len(m) : HasKey(m[j], "score")}}
        IN /\ DOMAIN last.ret = {"lowestScore", "highestScore"}
           /\ IF m # <<>> /\ \A i \in 1..Len(m) : HasKey(m[i], "score")
              THEN /\ last.ret.lowestScore \in scores
                   /\ \A x \in scores : last.ret.lowestScore <= x
                   /\ last.ret.highestScore \in scores
                   /\ \A x \in scores : last.ret.highestScore >= x
              ELSE last.ret = [lowestScore |-> 0, highestScore |-> 0]

\* The bounds of a list of three scored entries, the least one negative, were
\* computed.
C8_ThreeScoredEntries ==
    /\ last.op = "calculate_score_bound_cell"
    /\ Len(last.metadata) = 3
    /\ \A i \in 1..3 : HasKey(last.metadata[i], "score")
    /\ last.ret = [lowestScore |-> -1, highestScore |-> 2]

----------------------------------------------------------------------------
(* Further properties of the passes (checked under Spec) *)

HasColon(id) == \E n \in 1..Len(id) : id[n] = ":"

\* Every item of the response has an id and a candidate list, and every
\* candidate an id, a name and a match flag
Complete(resp) ==
    \A k \in 1..Len(resp) :
        /\ HasKey(resp[k], "id") /\ HasKey(resp[k], "metadata")
        /\ \A j \in 1..Len(resp[k].metadata) :
              /\ HasKey(resp[k].metadata[j], "id")
              /\ HasKey(resp[k].metadata[j], "name")
              /\ HasKey(resp[k].metadata[j], "match")

\* The items of the response that name the cell (row, column_name)
ItemsOf(resp, row, column_name) ==
    {k \in 1..Len(resp) : resp[k].id = PyStr(CellId(row, column_name))}

\* C11: a candidate whose id has no ":" does not change how the other cells
\* of a reconciliation response are merged: after a reconcile pass that
\* returned the table, every cell named by an item whose candidates all have
\* a ":" in their id holds that item's candidates, their names rewritten.
C11_OtherCellsStillMerged ==
    (/\ last.op = "reconcile"
     /\ last.ret = "table"
     /\ Complete(The(last.call.post_data))) =>
        \A rc \in CellsOf(table) :
            \A k \in ItemsOf(The(last.call.post_data), rc[1], rc[2]) :
                LET item == The(last.call.post_data)[k]
                    cell == CellAt(table, rc)
                IN (\A j \in 1..Len(item.metadata) : HasColon(item.metadata[j].id))
                   => /\ Len(cell.metadata) = Len(item.metadata)
                      /\ \A j \in 1..Len(item.metadata) :
                            /\ cell.metadata[j].id = item.metadata[j].id
                            /\ ~IsStr(cell.metadata[j].name)

\* C15: a reconcile pass over a column replaces the column's annotation state
\* wholesale: after a pass that returned the table, a cell of the column that
\* the response does not name holds no candidate and no annotation of an
\* earlier pass.
C15_UnnamedCellsHoldNothing ==
    (last.op = "reconcile" /\ last.ret = "table") =>
        \A r \in DOMAIN table.rows :
            LET C == last.call.column_name
            IN (C \in DOMAIN table.rows[r].cells
                /\ \A k \in 1..Len(The(last.call.post_data)) :
                      HasKey(The(last.call.post_data)[k], "id") =>
                          The(last.call.post_data)[k].id # PyStr(CellId(r, C)))
               => /\ table.rows[r].cells[C].metadata = <<>>
                  /\ ~HasKey(table.rows[r].cells[C], "annotationMeta")

\* The columns of an extension response that have no 'cells' entry and a
\* name to be merged under
ColumnsWithoutCells(call) ==
    {i \in 1..Len(The(call.post_data).columns) :
        /\ i <= Len(call.new_columns_name)
        /\ ~HasKey(The(call.post_data).columns[i].val, "cells")}

CellsUnder(tbl, column_name) ==
    {r \in DOMAIN tbl.rows : column_name \in DOMAIN tbl.rows[r].cells}

\* C16: when an extension response column has no 'cells' entry, merging that
\* column fails with a structural error (ValueError) before any cell of that
\* column is written: the pass leaves the cells under that column's name as
\* they were, so no row contains a cell under the name of a new column.
C16_ColumnWithoutCellsWritesNothing ==
    [][(/\ last'.op = "extend_column"
        /\ last'.call.post_data # None
        /\ HasKey(The(last'.call.post_data), "columns")
        /\ HasKey(The(last'.call.post_data), "meta")
        /\ last'.caught = "ValueError")
       => /\ ColumnsWithoutCells(last'.call) # {}
          /\ \A i \in ColumnsWithoutCells(last'.call) :
                LET name == last'.call.new_columns_name[i]
                IN /\ CellsUnder(table', name) = CellsUnder(table, name)
                   /\ \A r \in CellsUnder(table, name) :
                         table'.rows[r].cells[name] = table.rows[r].cells[name]]_vars

\* A pass wrote the first column of a response and failed on its second
\* column, which has no cells: no row holds a cell under the second name
C16_SecondColumnWithoutCells ==
    /\ last.op = "extend_column"
    /\ last.caught = "ValueError"
    /\ last.call.post_data # None
    /\ HasKey(The(last.call.post_data), "columns")
    /\ 2 \in ColumnsWithoutCells(last.call)
    /\ CellsUnder(table, last.call.new_columns_name[1]) = DOMAIN table.rows
    /\ CellsUnder(table, last.call.new_columns_name[2]) = {}

\* The pass of the call gets as far as its POST request on table tbl
ReachesRequest(op, call, tbl) ==
    IF op = "reconcile"
    THEN /\ call.list_data # None
         /\ \E s \in 1..Len(The(call.list_data)) :
               The(call.list_data)[s].id = call.id_reconciliator
         /\ \A r \in DOMAIN tbl.rows :
               /\ call.column_name \in DOMAIN tbl.rows[r].cells
               /\ HasKey(tbl.rows[r].cells[call.column_name], "label")
    ELSE /\ op = "extend_column"
         /\ call.extender_list # None
         /\ \E s \in 1..Len(The(call.extender_list)) :
               The(call.extender_list)[s].id = call.id_extender

\* C18: when the service request of a reconcile or extend pass fails, the
\* pass reports it (it returns None to its caller and raises nothing) and the
\* table is exactly as it was before the pass.
C18_FailedRequestLeavesTable ==
    [][(/\ last'.op \in {"reconcile", "extend_column"}
        /\ last'.call.post_data = None
        /\ ReachesRequest(last'.op, last'.call, table))
       => /\ table' = table
          /\ last'.ret = "None"
          /\ last'.exc = ""]_vars

\* The request of a reconcile pass over a reconciled column failed
C18_RequestFailedOnReconciledTable ==
    /\ last.op = "reconcile"
    /\ last.call.post_data = None
    /\ ReachesRequest("reconcile", last.call, table)
    /\ last.ret = "None"
    /\ HasKey(table.columns[City], "context")

\* C20: in a reconcile pass that reaches the merge, the column update runs
\* after every cell merge of the pass, so the column's roll-up reads the
\* annotationMeta this pass wrote and never a mix of old and new cell state:
\* after a pass that returned the table, for a response whose items and
\* candidates are complete and whose candidate ids all have a ":", the
\* column's reconciliated count is the number of cells of the column that the
\* response names.
C20_RollUpCountsCellsOfThisPass ==
    (/\ last.op = "reconcile"
     /\ last.ret = "table"
     /\ Complete(The(last.call.post_data))
     /\ \A k \in 1..Len(The(last.call.post_data)) :
           \A j \in 1..Len(The(last.call.post_data)[k].metadata) :
               HasColon(The(last.call.post_data)[k].metadata[j].id)) =>
        LET C == last.call.column_name
            context == table.columns[C].context
        IN \A prefix \in DOMAIN context :
              context[prefix].reconciliated
                 = Cardinality({r \in DOMAIN table.rows :
                       ItemsOf(The(last.call.post_data), r, C) # {}})

\* The kind of a response column: its 'kind' if given, otherwise entity
\* exactly when one of its cells carries a non-empty candidate list
KindOf(new_column_data) ==
    IF HasKey(new_column_data, "kind") THEN new_column_data.kind
    ELSE IF \E i \in 1..Len(new_column_data.cells) :
               /\ HasKey(new_column_data.cells[i].val, "metadata")
               /\ new_column_data.cells[i].val.metadata # <<>>
         THEN "entity"
         ELSE "literal"

\* C22: every cell the extension merge wrote has, as annotationMeta, the
\* candidate summary (annotated, match, score bounds) when the new column's
\* kind is entity and {} otherwise; the kind is the response column's 'kind'
\* if given, otherwise entity exactly when some cell of the response column
\* carries a non-empty candidate list.
C22_AnnotationFollowsKind ==
    (last.op = "extend_column" /\ last.ret = "table") =>
        LET data == The(last.call.post_data)
        IN \A i \in 1..Len(data.columns) :
              LET column == data.columns[i].val
                  name == last.call.new_columns_name[i]
              IN \A n \in 1..Len(column.cells) :
                    LET cell == table.rows[column.cells[n].key].cells[name]
                    IN /\ HasKey(cell, "annotationMeta")
                       /\ IF KindOf(column) = "entity"
                          THEN /\ DOMAIN cell.annotationMeta
                                     = {"annotated", "match", "lowestScore",
                                        "highestScore"}
                               /\ cell.annotationMeta.annotated = TRUE
                               /\ cell.annotationMeta.match.value
                                     = AnyMatch(cell.metadata)
                          ELSE DOMAIN cell.annotationMeta = {}

\* C23: a reconcile pass over column C changes only column C: whatever ids
\* the response contains, every cell of every other column and every other
\* column's entry in the table's columns are after the pass what they were
\* before it, and no cell's label is changed.
C23_ReconcileChangesOnlyItsColumn ==
    [][last'.op = "reconcile" =>
          LET C == last'.call.column_name
          IN /\ \A c \in DOMAIN table.columns \ {C} :
                   /\ c \in DOMAIN table'.columns
                   /\ table'.columns[c] = table.columns[c]
             /\ \A r \in DOMAIN table.rows :
                   /\ r \in DOMAIN table'.rows
                   /\ \A c \in DOMAIN table.rows[r].cells :
                         /\ c \in DOMAIN table'.rows[r].cells
                         /\ c # C => table'.rows[r].cells[c] = table.rows[r].cells[c]
                         /\ table'.rows[r].cells[c].label = table.rows[r].cells[c].label
                   /\ DOMAIN table'.rows[r].cells = DOMAIN table.rows[r].cells]_vars

----------------------------------------------------------------------------
(* Properties of the single operations (checked under SpecCalls) *)

\* C12: the reconciliation payload for column C carries the given service id
\* and, as items, one leading item {id: column$index, label: C} followed by
\* one item per table row, in row order, with id <rowId>$C and the label the
\* row's cell in C holds; the item count is the row count plus one.
C12_PayloadIsHeaderThenRows ==
    (last.op = "create_reconciliation_payload" /\ last.ret.exc = "") =>
        LET payload == last.ret.val
            C == last.column_name
        IN /\ payload.serviceId = last.id_reconciliator
           /\ Len(payload.items) = Cardinality(DOMAIN table.rows) + 1
           /\ payload.items[1] = [id |-> <<"column", "$", "index">>, label |-> C]
           /\ \A i \in 1..NumRows :
                 /\ payload.items[i + 1].id = RowIds[i] \o <<"$">> \o C
                 /\ payload.items[i + 1].label = table.rows[RowIds[i]].cells[C].label

\* A payload was built for a column whose cells differ in their labels
C12_PayloadOfDistinctLabels ==
    /\ last.op = "create_reconciliation_payload"
    /\ last.ret.exc = ""
    /\ Len(last.ret.val.items) = NumRows + 1
    /\ last.ret.val.items[2].label # last.ret.val.items[3].label

\* The candidates of a cell's metadata that are flagged match
Flagged(cell) ==
    IF HasKey(cell, "metadata")
    THEN {j \in 1..Len(cell.metadata) :
             HasKey(cell.metadata[j], "match") /\ cell.metadata[j].match = TRUE}
    ELSE {}

\* The cell's annotation marks a confirmed match
MarkedMatch(cell) ==
    /\ HasKey(cell, "annotationMeta")
    /\ HasKey(cell.annotationMeta, "match")
    /\ cell.annotationMeta.match.value = TRUE

\* C13: in the extension payload, items[columnName] has an entry for row r
\* exactly when r's cell in that column is marked as a confirmed match and
\* has a candidate flagged match; the entry is the id of the first flagged
\* candidate in list order.
C13_ItemsAreFirstFlaggedIds ==
    (last.op = "create_extension_payload") =>
        LET C == last.reconciliated_column_name
            items == last.ret.items[C]
            cellOf(r) == table.rows[r].cells[C]
        IN /\ DOMAIN last.ret.items = {C}
           /\ \A r \in DOMAIN table.rows :
                 /\ r \in DOMAIN items <=>
                       /\ C \in DOMAIN table.rows[r].cells
                       /\ MarkedMatch(cellOf(r))
                       /\ Flagged(cellOf(r)) # {}
                 /\ r \in DOMAIN items =>
                       LET j == CHOOSE n \in Flagged(cellOf(r)) :
                                   \A m \in Flagged(cellOf(r)) : n <= m
                       IN items[r] = Some(cellOf(r).metadata[j].id)

\* A payload with a row whose flagged candidate is not the first of its list,
\* and a row left out
C13_SecondCandidateSent ==
    /\ last.op = "create_extension_payload"
    /\ \E r \in DOMAIN last.ret.items[last.reconciliated_column_name] :
          1 \notin Flagged(table.rows[r].cells[last.reconciliated_column_name])
    /\ DOMAIN last.ret.items[last.reconciliated_column_name] # DOMAIN table.rows

----------------------------------------------------------------------------
(* Further properties of the column aggregation (checked under SpecEval) *)

\* C14: after a column update with a service of the list, the column's
\* context has the service's prefix as its key, with the service's uri, total
\* the number of rows of the table and reconciliated the number of rows whose
\* cell in the column has annotationMeta.annotated = true; so
\* 0 <= reconciliated <= total.
C14_ContextCountsAnnotatedCells ==
    (last.op = "update_metadata_column" /\ last.exc = "") =>
        \E s \in 1..Len(ServiceList) :
            /\ ServiceList[s].id = last.id_reconciliator
            /\ LET context == table.columns[City].context
                   prefix == ServiceList[s].prefix
               IN /\ DOMAIN context = {prefix}
                  /\ context[prefix].uri = ServiceList[s].uri
                  /\ context[prefix].total = Cardinality(DOMAIN table.rows)
                  /\ context[prefix].reconciliated
                        = Cardinality(AnnotatedCells(table, City))
                  /\ 0 <= context[prefix].reconciliated
                  /\ context[prefix].reconciliated <= context[prefix].total

\* A column was updated for the second service of the list while one of its
\* cells was annotated and another carried an annotationMeta not annotated
C14_SomeCellsNotAnnotated ==
    /\ last.op = "update_metadata_column"
    /\ last.exc = ""
    /\ last.id_reconciliator = "wikidata"
    /\ AnnotatedCells(table, City) # {}
    /\ \E r \in ColumnCells(table, City) : r \notin AnnotatedCells(table, City)

\* The ids and the prefixes of a service list
IdsOf(list) == {list[s].id : s \in 1..Len(list)}
PrefixesOf(list) == {list[s].prefix : s \in 1..Len(list)}

\* C17: a service id or prefix that is not in the service list never causes
\* an exception: creating a column's context for an id the list does not
\* have, and resolving the reconciliator id of a column whose context prefix
\* the list does not have, return to the caller without raising.
C17_UnresolvedServiceNeverRaises ==
    /\ (/\ last.op = "create_context_column"
        /\ last.id_reconciliator \notin IdsOf(last.reconciliator_response))
       => last.ret.exc = ""
    /\ (/\ last.op = "get_column_id_reconciliator"
        /\ last.column_name \in DOMAIN table.columns
        /\ HasKey(table.columns[last.column_name], "context")
        /\ DOMAIN table.columns[last.column_name].context # {}
        /\ DOMAIN table.columns[last.column_name].context
              \cap PrefixesOf(last.reconciliator_response) = {})
       => last.ret.exc = ""

\* C19: in the backend-update payload, nCellsReconciliated equals the
\* reconciliated count stored in the reconciled column's context, whichever
\* service prefix keys that context; columns.allIds and rows.allIds list
\* exactly the keys of columns.byId and rows.byId.
C19_PayloadCountIsContextCount ==
    (last.op = "create_reconciliation_payload_for_backend") =>
        LET C == last.reconciliated_column_name
        IN \A payload \in {last.ret, last.returned} :
              /\ {payload.columns.allIds[i] : i \in 1..Len(payload.columns.allIds)}
                    = DOMAIN payload.columns.byId
              /\ Len(payload.columns.allIds) = Cardinality(DOMAIN payload.columns.byId)
              /\ {payload.rows.allIds[i] : i \in 1..Len(payload.rows.allIds)}
                    = DOMAIN payload.rows.byId
              /\ Len(payload.rows.allIds) = Cardinality(DOMAIN payload.rows.byId)
              /\ (C \in DOMAIN table.columns /\ HasKey(table.columns[C], "context"))
                 => \A prefix \in DOMAIN table.columns[C].context :
                       payload.tableInstance.nCellsReconciliated
                          = table.columns[C].context[prefix].reconciliated

----------------------------------------------------------------------------
(* Properties of the aggregation over loose tables (checked under SpecRows) *)

\* The rows whose cell in the column carries an annotationMeta with all of
\* its fields
WellFormedRows(tbl, column_name) ==
    {r \in ColumnCells(tbl, column_name) :
        LET am == CellMeta(tbl, r, column_name)
        IN /\ HasKey(am, "match") /\ HasKey(am.match, "value")
           /\ HasKey(am, "lowestScore") /\ HasKey(am, "highestScore")}

\* The table without its other rows
WellFormedPart(tbl, column_name) ==
    [tbl EXCEPT !.rows = [r \in WellFormedRows(tbl, column_name) |-> tbl.rows[r]]]

\* C21: during column aggregation a row that has no cell for the column, or
\* whose cell lacks annotationMeta or a field of it, is skipped without
\* aborting: the column update completes, and the column's reconciliated
\* count and annotation summary are those of the well-formed rows alone.
C21_MalformedRowsAreSkipped ==
    last.op = "update_metadata_column" =>
        /\ last.exc = ""
        /\ \A prefix \in DOMAIN table.columns[City].context :
              table.columns[City].context[prefix].reconciliated
                 = Cardinality(AnnotatedCells(table, City)
                                  \cap WellFormedRows(table, City))
        /\ table.columns[City].annotationMeta
              = create_annotation_meta_column(TRUE, WellFormedPart(table, City),
                                              City, ServiceList).val

====
